---- MODULE Spec2Model ----
(***************************************************************************)
(* A model of app.py: the Nuitka build handler compile_with_nuitka, the    *)
(* artifact search find_compiled_binary and the sandbox runner             *)
(* run_compiled_binary.                                                    *)
(*                                                                         *)
(* Spec     one call of compile_with_nuitka, step by step                  *)
(* SpecRun  one call of run_compiled_binary against a child process that   *)
(*          writes, closes its streams and exits as it likes, with time    *)
(*          counted in poll intervals of 0.1 s                             *)
(* SpecFind    find_compiled_binary applied to any small output tree       *)
(* SpecJobs    several calls of compile_with_nuitka over one file system   *)
(* SpecStream  the streaming loop with a compiler that prints many lines   *)
(* SpecUI      the page: compile, run, start new, over the session state   *)
(***************************************************************************)
EXTENDS Integers, Sequences, FiniteSets, TLC

VARIABLES
    pc,                \* position inside compile_with_nuitka
    target_platform,   \* argument: "linux" or "windows"
    requirements,      \* argument: "" (blank) or "reqs"
    packages,          \* argument: "" (blank) or "pkgs"
    compilation_mode,  \* argument: key of compile_options
    output_extension,  \* argument: ".bin" or ".sh"
    missing_deps,      \* what check_dependencies returned
    dirs,              \* workspace directories that exist: job_dir, output_dir
    job_files,         \* files written into job_dir
    spawned,           \* external processes started so far, in order
    attempts,          \* strategies whose command was handed to Popen, in order
    packages_result,   \* local packages_result
    install_result,    \* local install_result
    proc,              \* compiler process: "none", "running", "exited"
    stdout_open,       \* the compiler still holds its output stream open
    returncode,        \* process.returncode (None until the process exits)
    line_count,        \* local line_count
    compile_output,    \* local compile_output, as the sequence of lines read
    progress,          \* value shown by progress_bar, in 1/200ths
    formatted_log,     \* the lines shown in the log window
    files,             \* files that exist under output_dir
    execbits,          \* files under output_dir whose mode is 0o755
    binary_path,       \* local binary_path (None when nothing was found)
    binary_info,       \* local binary_info (stdout of file)
    linking_info,      \* local linking_info
    result,            \* the returned dict (None until the call returns)
    \* ---- run_compiled_binary ----
    rpc,               \* position inside run_compiled_binary
    child,             \* child process: "none", "running", "exited", "killed"
    childWrite,        \* the pipe the child is blocked writing to, or "none"
    childExit,         \* the exit code the child ends with
    ignoresTerm,       \* the child ignores SIGTERM
    outOpen, errOpen,  \* the child holds its end of the pipe open
    artifact_type,     \* what kind of file the artifact at binary_path is
    popen_called,      \* Popen has been called with the artifact
    outW, outR,        \* lines written to the stdout pipe / returned by readline
    errW, errR,        \* lines written to the stderr pipe / returned by readline
    outB, errB,        \* lines taken out of each pipe into the reader's buffer
    now,               \* time.time() - start_time, in poll intervals
    output_text,       \* local output_text, as a sequence of transcript lines
    runResult          \* the returned (success, text) pair (None until return)

cvars == <<pc, target_platform, requirements, packages, compilation_mode,
           output_extension, missing_deps, dirs, job_files, spawned,
           attempts, packages_result, install_result, proc, stdout_open, returncode,
           line_count, compile_output, progress, formatted_log, files, execbits,
           binary_path, binary_info, linking_info, result>>

\* several build requests at once, each in its own session: per request,
\* where compile_with_nuitka is, the job_id it drew, its source text and the
\* artifact path it found; and the file system the requests share
VARIABLES
    jpc, job_id, jcode, jresult,
    fs_dirs,           \* the directories that exist
    fs_files           \* the files that exist, each with its directory

jvars == <<jpc, job_id, jcode, jresult, fs_dirs, fs_files>>

\* the page of one browser session
VARIABLES
    compilation_results,  \* st.session_state.compilation_results
    show_results,         \* st.session_state.show_results
    ui,                   \* what the page shows: the form, a build, the results
    run_output            \* what the last press of the run button displayed

uvars == <<compilation_results, show_results, ui, run_output>>

rvars == <<rpc, child, childWrite, childExit, ignoresTerm, outOpen, errOpen,
           artifact_type, popen_called, outW, outR, errW, errR, outB, errB,
           now, output_text, runResult>>

vars == <<cvars, rvars, jvars, uvars>>

\* the arguments of the call, which no step assigns
args == <<target_platform, requirements, packages, compilation_mode,
          output_extension>>

None == "None"

\* a path variable that holds None
NoPath == [dir |-> "none", name |-> <<>>]

\* process.returncode of a process that has not exited
NotExited == 256

\* the value of result before the call returns
NoResult ==
    [success |-> FALSE, error |-> "not returned", install_result |-> None,
     compile_output |-> [kind |-> "empty", lines |-> <<>>],
     binary_path |-> NoPath, binary_info |-> None]

\* the value of runResult before run_compiled_binary returns
NoRunResult == [success |-> FALSE, reason |-> "not returned", text |-> <<>>]

-----------------------------------------------------------------------------
(* Bounds of the model *)

\* lines the compiler writes at most
MaxCompLines == 2

\* files the compiler leaves under output_dir at most
MaxFiles == 1

\* the most lines a verbose compiler prints, and how many of its first
\* lines may have a line boundary inside
MaxStreamLines == 201
MaxSplitLines == 2

\* the largest number of files in a tree find_compiled_binary is applied to
MaxTree == 2

\* the number of build requests in flight together
MaxJobs == 2

Jobs == 1..MaxJobs

\* the values uuid.uuid4() can return, and "no job_id yet"
Ids == 1..MaxJobs
NoId == 0

\* a directory of the shared file system: a base directory and a job_id
Dir(base, id) == [base |-> base, id |-> id]

\* os.path.join(base_dir, job_id), base_dir being <app>/user_code
JobDir(id) == Dir("user_code", id)

\* the output directory without the job_id in it
OutputDirShared(id) == Dir("compiled_output", NoId)

\* os.path.join(<app>, "compiled_output", job_id)
OutputDir(id) == Dir("compiled_output", id)

\* a file of the shared file system, and "no artifact"
File(d, p) == [dir |-> d, path |-> p]
NoArtifact == File(Dir("none", NoId), NoPath)

\* lines a child writes to one stream at most
MaxLines == 3

\* lines a pipe holds before a writer blocks
PipeCap == 2

-----------------------------------------------------------------------------
(* The file tree under output_dir.  A path is a directory and a file name; *)
(* a file name is the sequence of its dot-separated parts, so that         *)
(* appending an extension and testing endswith are what the code does.     *)

\* "root" is output_dir itself, "dist" is output_dir/user_script.dist,
\* "sub" is any other directory below output_dir
Dirs == {"root", "dist", "sub"}

Names == { <<"user_script">>, <<"user_script", ".bin">>, <<"user_script", ".sh">>,
           <<"other", ".bin">>, <<"other", ".exe">> }

Paths == [dir : Dirs, name : Names]

\* a directory whose name starts with a dot: glob's "**" does not descend
\* into it
HiddenDirs == {"hidden"}

\* every place under output_dir a file can be at
TreePaths == [dir : Dirs \cup HiddenDirs, name : Names]

Path(d, n) == [dir |-> d, name |-> n]

\* str.endswith(output_extension)
EndsWith(p, ext) == p.name[Len(p.name)] = ext

\* a new path that is the old one, nothing appended
WithExtensionNone(p, ext) == p

\* binary_path + output_extension
WithExtension(p, ext) == [dir |-> p.dir, name |-> Append(p.name, ext)]

\* f"user_script{output_extension}"
OutputFilename(ext) == <<"user_script", ext>>

\* glob.glob(os.path.join(output_dir, "**", name), recursive=True)
GlobName(fs, n) == {p \in fs : p.dir \notin HiddenDirs /\ p.name = n}

\* glob.glob(os.path.join(output_dir, "**", "*" + ext), recursive=True)
GlobExt(fs, ext) ==
    {p \in fs : p.dir \notin HiddenDirs /\ Len(p.name) > 1 /\ EndsWith(p, ext)}

\* glob.glob(os.path.join(output_dir, name)): the output root only
GlobRoot(fs, n) == {p \in fs : p.dir = "root" /\ p.name = n}

\* matches[0]: "**" lists output_dir itself before the directories below
\* it, and the entries of one directory in the order the host lists them
First(matches) ==
    IF \E p \in matches : p.dir = "root"
    THEN {p \in matches : p.dir = "root"}
    ELSE matches

\* the first non-empty glob of a list of globs, as the set of its possible
\* first elements; {} when every glob is empty
RECURSIVE FirstMatch(_)
FirstMatch(globs) ==
    IF globs = <<>> THEN {}
    ELSE IF Head(globs) # {} THEN First(Head(globs))
    ELSE FirstMatch(Tail(globs))

\* find_compiled_binary looking under user_script.dist before the root
find_compiled_binary_DistFirst(fs, fname) ==
    IF Path("dist", fname) \in fs THEN {Path("dist", fname)}
    ELSE IF Path("root", fname) \in fs THEN {Path("root", fname)}
    ELSE LET m == FirstMatch(<< GlobName(fs, fname),
                                GlobName(fs, <<"user_script">>),
                                GlobExt(fs, ".bin"),
                                GlobExt(fs, ".exe") >>)
         IN IF m # {} THEN m ELSE {NoPath}

\* find_compiled_binary without the recursive search for the expected name
find_compiled_binary_NoRecursive(fs, fname) ==
    IF Path("root", fname) \in fs THEN {Path("root", fname)}
    ELSE IF Path("dist", fname) \in fs THEN {Path("dist", fname)}
    ELSE LET m == FirstMatch(<< GlobName(fs, <<"user_script">>),
                                GlobExt(fs, ".bin"),
                                GlobExt(fs, ".exe") >>)
         IN IF m # {} THEN m ELSE {NoPath}

\* find_compiled_binary: the set of paths it may return ({NoPath}: not found)
find_compiled_binary(fs, fname) ==
    IF Path("root", fname) \in fs THEN {Path("root", fname)}
    ELSE IF Path("dist", fname) \in fs THEN {Path("dist", fname)}
    ELSE LET m == FirstMatch(<< GlobName(fs, fname),
                                GlobName(fs, <<"user_script">>),
                                GlobExt(fs, ".bin"),
                                GlobExt(fs, ".exe") >>)
         IN IF m # {} THEN m ELSE {NoPath}

\* the fallback patterns compile_with_nuitka tries when the search missed
FallbackPatterns(fs) ==
    LET m == FirstMatch(<< GlobRoot(fs, <<"user_script">>),
                           GlobRoot(fs, <<"user_script", ".bin">>),
                           GlobName(fs, <<"user_script">>),
                           GlobExt(fs, ".bin") >>)
    IN IF m # {} THEN m ELSE {NoPath}

-----------------------------------------------------------------------------
(* compile_with_nuitka *)

Strategies == <<"max_compatibility", "portable", "standalone">>

StrategySet == {Strategies[i] : i \in DOMAIN Strategies}

RequiredTools == {"patchelf", "gcc"}

\* a selection that ignores compilation_mode and takes the first entry
SelectedOptionFirst(mode) == Strategies[1]

\* compile_options[compilation_mode]
SelectedOption(mode) == mode

\* the dict returned for target_platform == "windows"
WindowsResult ==
    [success |-> FALSE, error |-> "windows",
     install_result |-> "Windows compilation not supported",
     compile_output |-> [kind |-> "windows", lines |-> <<>>],
     binary_path |-> NoPath, binary_info |-> None]

\* the dict returned when the pip call raises
InstallErrorResult ==
    [success |-> FALSE, error |-> "install_exception",
     install_result |-> "Error",
     compile_output |-> [kind |-> "empty", lines |-> <<>>],
     binary_path |-> NoPath, binary_info |-> None]

\* a failure dict that passes the path found on instead of None
FailedResultKeepsPath(log, path, inst) ==
    [success |-> FALSE, error |-> "compile_failed",
     install_result |-> inst,
     compile_output |-> [kind |-> "log", lines |-> log],
     binary_path |-> path, binary_info |-> "Compilation failed"]

\* the dict returned by the else branch of the success test
FailedResult(log, path, inst) ==
    [success |-> FALSE, error |-> "compile_failed",
     install_result |-> inst,
     compile_output |-> [kind |-> "log", lines |-> log],
     binary_path |-> NoPath, binary_info |-> "Compilation failed"]

\* an except branch that returns what the else branch of the success test
\* returns for a compiler that printed nothing
ExceptionResultAsFailed == FailedResult(<<>>, NoPath, "Compilation error")

\* the dict returned by the except branch
ExceptionResult ==
    [success |-> FALSE, error |-> "compile_exception",
     install_result |-> "Compilation error",
     compile_output |-> [kind |-> "error", lines |-> <<>>],
     binary_path |-> NoPath, binary_info |-> "Compilation error"]

\* the dict returned on success
SuccessResult(log, path, info, inst) ==
    [success |-> TRUE, error |-> None,
     install_result |-> inst,
     compile_output |-> [kind |-> "log", lines |-> log],
     binary_path |-> path, binary_info |-> info]

\* a success test that looks at the exit code alone
IsSuccessExitOnly(rc, path) == rc = 0

\* process.returncode == 0 and binary_path
IsSuccess(rc, path) == rc = 0 /\ path # NoPath

\* min(line_count / 200, 0.99), in 1/200ths
ProgressUncapped(n) == n

Progress(n) == IF n < 198 THEN n ELSE 198

CInit ==
    /\ pc = "preflight"
    /\ target_platform \in {"linux", "windows"}
    /\ requirements \in {"", "reqs"}
    /\ packages \in {"", "pkgs"}
    /\ compilation_mode \in StrategySet
    /\ output_extension \in {".bin", ".sh"}
    /\ missing_deps = {}
    /\ dirs = {}
    /\ job_files = {}
    /\ spawned = <<>>
    /\ attempts = <<>>
    /\ packages_result = None
    /\ install_result = None
    /\ proc = "none"
    /\ stdout_open = FALSE
    /\ returncode = NotExited
    /\ line_count = 0
    /\ compile_output = <<>>
    /\ progress = 0
    /\ formatted_log = <<>>
    /\ files = {}
    /\ execbits = {}
    /\ binary_path = NoPath
    /\ binary_info = None
    /\ linking_info = None
    /\ result = NoResult

RIdle ==
    /\ rpc = "idle"
    /\ child = "none"
    /\ childWrite = "none"
    /\ childExit = NotExited
    /\ ignoresTerm = FALSE
    /\ outOpen = FALSE
    /\ errOpen = FALSE
    /\ outW = 0
    /\ outR = 0
    /\ errW = 0
    /\ errR = 0
    /\ outB = 0
    /\ errB = 0
    /\ artifact_type = "ELF"
    /\ popen_called = FALSE
    /\ now = 0
    /\ output_text = <<>>
    /\ runResult = NoRunResult

\* no request has been made
JIdle ==
    /\ jpc = [j \in Jobs |-> "idle"]
    /\ job_id = [j \in Jobs |-> NoId]
    /\ jcode = [j \in Jobs |-> ""]
    /\ jresult = [j \in Jobs |-> NoArtifact]
    /\ fs_dirs = {}
    /\ fs_files = {}

\* session state as lines 21-24 initialise it, nothing displayed yet
UIdle ==
    /\ compilation_results = NoResult
    /\ show_results = FALSE
    /\ ui = "form"
    /\ run_output = "none"

Init == CInit /\ RIdle /\ JIdle /\ UIdle

\* return <dict>
Return(r) ==
    /\ result' = r
    /\ pc' = "returned"

\* a preflight that ends the call when a tool is missing
PreflightFatal ==
    /\ pc = "preflight"
    /\ \E m \in SUBSET RequiredTools :
         /\ missing_deps' = m
         /\ IF m # {}
            THEN Return([ExceptionResult EXCEPT !.error = "environment"])
            ELSE pc' = "mkdirs" /\ UNCHANGED result
    /\ spawned' = spawned \o <<"which", "which">>
    /\ UNCHANGED <<rvars, jvars, uvars>>
    /\ UNCHANGED formatted_log
    /\ UNCHANGED <<attempts, args, dirs, job_files, packages_result,
                   install_result, proc, stdout_open, returncode, line_count,
                   compile_output, progress, files, execbits, binary_path,
                   binary_info, linking_info>>

\* missing_deps = check_dependencies(): a warning only
Preflight ==
    /\ pc = "preflight"
    /\ \E m \in SUBSET RequiredTools : missing_deps' = m
    /\ spawned' = spawned \o <<"which", "which">>
    /\ pc' = "mkdirs"
    /\ UNCHANGED <<rvars, jvars, uvars>>
    /\ UNCHANGED formatted_log
    /\ UNCHANGED <<attempts, args, dirs, job_files, packages_result,
                   install_result, proc, stdout_open, returncode, line_count,
                   compile_output, progress, files, execbits, binary_path,
                   binary_info, linking_info, result>>

\* ensure_dir(job_dir); ensure_dir(output_dir)
CreateDirs ==
    /\ pc = "mkdirs"
    /\ dirs' = dirs \cup {"job_dir", "output_dir"}
    /\ pc' = "platform"
    /\ UNCHANGED <<rvars, jvars, uvars>>
    /\ UNCHANGED formatted_log
    /\ UNCHANGED <<attempts, args, missing_deps, job_files, spawned,
                   packages_result, install_result, proc, stdout_open,
                   returncode, line_count, compile_output, progress, files,
                   execbits, binary_path, binary_info, linking_info, result>>

\* if target_platform == "windows": return {...}
CheckPlatform ==
    /\ pc = "platform"
    /\ IF target_platform = "windows"
       THEN Return(WindowsResult)
       ELSE pc' = "packages" /\ UNCHANGED result
    /\ UNCHANGED <<rvars, jvars, uvars>>
    /\ UNCHANGED formatted_log
    /\ UNCHANGED <<attempts, args, missing_deps, dirs, job_files, spawned,
                   packages_result, install_result, proc, stdout_open,
                   returncode, line_count, compile_output, progress, files,
                   execbits, binary_path, binary_info, linking_info>>

\* packages_result = install_system_packages(...) when packages is not blank
InstallPackages ==
    /\ pc = "packages"
    /\ IF packages = ""
       THEN /\ packages_result' = "No system packages specified."
            /\ UNCHANGED spawned
       ELSE /\ packages_result' = "System Packages Summary"
            /\ spawned' = Append(spawned, "apt-get")
    /\ pc' = "write"
    /\ UNCHANGED <<rvars, jvars, uvars>>
    /\ UNCHANGED formatted_log
    /\ UNCHANGED <<attempts, args, missing_deps, dirs, job_files,
                   install_result, proc, stdout_open, returncode, line_count,
                   compile_output, progress, files, execbits, binary_path,
                   binary_info, linking_info, result>>

\* a step that goes on to the requirements without writing the script
WriteScriptSkipped ==
    /\ pc = "write"
    /\ pc' = "reqs"
    /\ UNCHANGED <<rvars, jvars, uvars>>
    /\ UNCHANGED formatted_log
    /\ UNCHANGED <<attempts, args, missing_deps, dirs, job_files, spawned,
                   packages_result, install_result, proc, stdout_open,
                   returncode, line_count, compile_output, progress, files,
                   execbits, binary_path, binary_info, linking_info, result>>

\* with open(script_path, "w") as f: f.write(code)
WriteScript ==
    /\ pc = "write"
    /\ job_files' = job_files \cup {"user_script.py"}
    /\ pc' = "reqs"
    /\ UNCHANGED <<rvars, jvars, uvars>>
    /\ UNCHANGED formatted_log
    /\ UNCHANGED <<attempts, args, missing_deps, dirs, spawned,
                   packages_result, install_result, proc, stdout_open,
                   returncode, line_count, compile_output, progress, files,
                   execbits, binary_path, binary_info, linking_info, result>>

\* the requirements block: pip exits zero, exits non-zero, or the call raises
InstallRequirements ==
    /\ pc = "reqs"
    /\ IF requirements = ""
       THEN /\ install_result' = "No Python requirements specified."
            /\ pc' = "spawn"
            /\ UNCHANGED <<job_files, spawned, result>>
       ELSE /\ job_files' = job_files \cup {"requirements.txt"}
            /\ \E outcome \in {"ok", "nonzero", "raises"} :
                 CASE outcome = "ok" ->
                        /\ install_result' = "installed"
                        /\ spawned' = Append(spawned, "pip")
                        /\ pc' = "spawn"
                        /\ UNCHANGED result
                   [] outcome = "nonzero" ->
                        /\ install_result' = "return code"
                        /\ spawned' = Append(spawned, "pip")
                        /\ pc' = "spawn"
                        /\ UNCHANGED result
                   [] outcome = "raises" ->
                        /\ install_result' = "Error"
                        /\ UNCHANGED spawned
                        /\ Return(InstallErrorResult)
    /\ UNCHANGED <<rvars, jvars, uvars>>
    /\ UNCHANGED formatted_log
    /\ UNCHANGED <<attempts, args, missing_deps, dirs, packages_result,
                   proc, stdout_open, returncode, line_count, compile_output,
                   progress, files, execbits, binary_path, binary_info,
                   linking_info>>

\* exit codes of an external process
ExitCodes == {0, 1}

\* what the file utility may print on its standard output for the artifact
FileOutputs == {"", "ELF 64-bit LSB executable"}

\* what the ldd branch may set linking_info to
LinkingInfos == {"Statically linked", "Dynamically linked", "Compiled binary"}

\* the sets of files a compiler run may leave under output_dir
Outputs == {fs \in SUBSET Paths : Cardinality(fs) <= MaxFiles}

\* process = subprocess.Popen(selected_option['cmd'], ...): started, or raises
SpawnCompiler ==
    /\ pc = "spawn"
    /\ attempts' = Append(attempts, SelectedOption(compilation_mode))
    /\ \/ /\ proc' = "running"
          /\ stdout_open' = TRUE
          /\ spawned' = Append(spawned, "nuitka")
          /\ pc' = "stream"
          /\ UNCHANGED result
       \/ /\ Return(ExceptionResult)
          /\ UNCHANGED <<proc, stdout_open, spawned>>
    /\ UNCHANGED <<rvars, jvars, uvars>>
    /\ UNCHANGED formatted_log
    /\ UNCHANGED <<args, missing_deps, dirs, job_files, packages_result,
                   install_result, returncode, line_count, compile_output,
                   progress, files, execbits, binary_path, binary_info,
                   linking_info>>

\* a line read from the compiler: its number, and how many line boundaries
\* other than the final newline it has inside (form feed, vertical tab,
\* U+2028 and the like, which str.splitlines splits at and readline does not)
LineText(n, seps) == [n |-> n, seps |-> seps]

\* the pieces str.splitlines makes of one line read
RECURSIVE Pieces(_, _)
Pieces(line, k) ==
    IF k > line.seps + 1 THEN <<>>
    ELSE <<[n |-> line.n, part |-> k]>> \o Pieces(line, k + 1)

\* compile_output.splitlines(): the pieces of every line read, in order
\* (the pieces of the first half of the log, then those of the second half)
RECURSIVE splitlines(_)
splitlines(log) ==
    IF log = <<>> THEN <<>>
    ELSE IF Len(log) = 1 THEN Pieces(log[1], 1)
    ELSE LET half == Len(log) \div 2
         IN splitlines(SubSeq(log, 1, half))
            \o splitlines(SubSeq(log, half + 1, Len(log)))

\* the number of lines the log window shows
WindowSize == 20

\* lines[-20:] on a list that keeps every line
LastLinesAll(lines) == lines

\* lines[-20:]
LastLines(lines) ==
    IF Len(lines) <= WindowSize THEN lines
    ELSE SubSeq(lines, Len(lines) - WindowSize + 1, Len(lines))

\* one turn of the for loop over process.stdout.readline, for a compiler
\* that prints at most max lines, the next one with seps inner boundaries
StreamRead(max, seps) ==
    /\ pc = "stream"
    /\ stdout_open
    /\ line_count < max
    /\ line_count' = line_count + 1
    /\ compile_output' = Append(compile_output, LineText(line_count + 1, seps))
    /\ progress' = Progress(line_count + 1)
    /\ formatted_log' = LastLines(splitlines(compile_output'))
    /\ UNCHANGED <<rvars, jvars, uvars>>
    /\ UNCHANGED <<args, pc, missing_deps, dirs, job_files, spawned, attempts,
                   packages_result, install_result, proc, stdout_open,
                   returncode, files, execbits, binary_path, binary_info,
                   linking_info, result>>

\* one turn of the loop in a build whose compiler prints plain lines
ReadLine ==
    /\ pc = "stream"
    /\ StreamRead(MaxCompLines, 0)

\* readline raises (a line that does not decode): the except branch
ReadLineRaises ==
    /\ pc = "stream"
    /\ stdout_open
    /\ Return(ExceptionResult)
    /\ UNCHANGED <<rvars, jvars, uvars>>
    /\ UNCHANGED formatted_log
    /\ UNCHANGED <<args, missing_deps, dirs, job_files, spawned, attempts,
                   packages_result, install_result, proc, stdout_open,
                   returncode, line_count, compile_output, progress, files,
                   execbits, binary_path, binary_info, linking_info>>

\* the compiler closes its output stream and keeps running
CompilerClosesStdout ==
    /\ pc \in {"stream", "wait"}
    /\ proc = "running"
    /\ stdout_open
    /\ stdout_open' = FALSE
    /\ UNCHANGED <<rvars, jvars, uvars>>
    /\ UNCHANGED formatted_log
    /\ UNCHANGED <<args, pc, missing_deps, dirs, job_files, spawned, attempts,
                   packages_result, install_result, proc, returncode,
                   line_count, compile_output, progress, files, execbits,
                   binary_path, binary_info, linking_info, result>>

\* the compiler exits, leaving its files under output_dir
CompilerExits ==
    /\ pc \in {"stream", "wait"}
    /\ proc = "running"
    /\ proc' = "exited"
    /\ stdout_open' = FALSE
    /\ returncode' \in ExitCodes
    /\ files' \in Outputs
    /\ UNCHANGED <<rvars, jvars, uvars>>
    /\ UNCHANGED formatted_log
    /\ UNCHANGED <<args, pc, missing_deps, dirs, job_files, spawned, attempts,
                   packages_result, install_result, line_count, compile_output,
                   progress, execbits, binary_path, binary_info, linking_info,
                   result>>

\* readline returns '': the loop ends, progress_bar.progress(1.0)
ReadEOF ==
    /\ pc = "stream"
    /\ ~stdout_open
    /\ progress' = 200
    /\ pc' = "wait"
    /\ UNCHANGED <<rvars, jvars, uvars>>
    /\ UNCHANGED formatted_log
    /\ UNCHANGED <<args, missing_deps, dirs, job_files, spawned, attempts,
                   packages_result, install_result, proc, stdout_open,
                   returncode, line_count, compile_output, files, execbits,
                   binary_path, binary_info, linking_info, result>>

\* process.wait()
Wait ==
    /\ pc = "wait"
    /\ proc = "exited"
    /\ pc' = "locate"
    /\ UNCHANGED <<rvars, jvars, uvars>>
    /\ UNCHANGED formatted_log
    /\ UNCHANGED <<args, missing_deps, dirs, job_files, spawned, attempts,
                   packages_result, install_result, proc, stdout_open,
                   returncode, line_count, compile_output, progress, files,
                   execbits, binary_path, binary_info, linking_info, result>>

\* binary_path = find_compiled_binary(...), then the fallback patterns
Locate ==
    /\ pc = "locate"
    /\ \E p \in find_compiled_binary(files, OutputFilename(output_extension)) :
         IF p # NoPath
         THEN binary_path' = p
         ELSE binary_path' \in FallbackPatterns(files)
    /\ pc' = "decide"
    /\ UNCHANGED <<rvars, jvars, uvars>>
    /\ UNCHANGED formatted_log
    /\ UNCHANGED <<args, missing_deps, dirs, job_files, spawned, attempts,
                   packages_result, install_result, proc, stdout_open,
                   returncode, line_count, compile_output, progress, files,
                   execbits, binary_info, linking_info, result>>

\* if process.returncode == 0 and binary_path: ... else: return {...}
Decide ==
    /\ pc = "decide"
    /\ IF IsSuccess(returncode, binary_path)
       THEN pc' = "file" /\ UNCHANGED result
       ELSE Return(FailedResult(compile_output, binary_path, install_result))
    /\ UNCHANGED <<rvars, jvars, uvars>>
    /\ UNCHANGED formatted_log
    /\ UNCHANGED <<args, missing_deps, dirs, job_files, spawned, attempts,
                   packages_result, install_result, proc, stdout_open,
                   returncode, line_count, compile_output, progress, files,
                   execbits, binary_path, binary_info, linking_info>>

\* file_process = subprocess.run(["file", binary_path], ...): the return
\* code is not looked at, binary_info is whatever was printed
RunFile ==
    /\ pc = "file"
    /\ \/ /\ binary_info' \in FileOutputs
          /\ spawned' = Append(spawned, "file")
          /\ pc' = "ldd"
          /\ UNCHANGED result
       \/ /\ Return(ExceptionResult)
          /\ UNCHANGED <<binary_info, spawned>>
    /\ UNCHANGED <<rvars, jvars, uvars>>
    /\ UNCHANGED formatted_log
    /\ UNCHANGED <<args, missing_deps, dirs, job_files, attempts,
                   packages_result, install_result, proc, stdout_open,
                   returncode, line_count, compile_output, progress, files,
                   execbits, binary_path, linking_info>>

\* ldd_process = subprocess.run(["ldd", binary_path], ...)
RunLdd ==
    /\ pc = "ldd"
    /\ \/ /\ linking_info' \in LinkingInfos
          /\ spawned' = Append(spawned, "ldd")
          /\ pc' = "rename"
          /\ UNCHANGED result
       \/ /\ Return(ExceptionResult)
          /\ UNCHANGED <<linking_info, spawned>>
    /\ UNCHANGED <<rvars, jvars, uvars>>
    /\ UNCHANGED formatted_log
    /\ UNCHANGED <<args, missing_deps, dirs, job_files, attempts,
                   packages_result, install_result, proc, stdout_open,
                   returncode, line_count, compile_output, progress, files,
                   execbits, binary_path, binary_info>>

\* shutil.move(binary_path, binary_path + output_extension) when the path
\* does not end with the extension
Rename ==
    /\ pc = "rename"
    /\ IF output_extension \in {".bin", ".sh"}
          /\ ~EndsWith(binary_path, output_extension)
       THEN LET new == WithExtension(binary_path, output_extension) IN
            \/ /\ files' = (files \ {binary_path}) \cup {new}
               /\ execbits' = IF binary_path \in execbits
                              THEN (execbits \ {binary_path}) \cup {new}
                              ELSE execbits \ {new}
               /\ binary_path' = new
               /\ pc' = "chmod"
               /\ UNCHANGED result
            \/ /\ Return(ExceptionResult)
               /\ UNCHANGED <<files, execbits, binary_path>>
       ELSE /\ pc' = "chmod"
            /\ UNCHANGED <<files, execbits, binary_path, result>>
    /\ UNCHANGED <<rvars, jvars, uvars>>
    /\ UNCHANGED formatted_log
    /\ UNCHANGED <<args, missing_deps, dirs, job_files, spawned, attempts,
                   packages_result, install_result, proc, stdout_open,
                   returncode, line_count, compile_output, progress,
                   binary_info, linking_info>>

\* a chmod that takes the executable bit away
MakeExecutableClears(fs, p) == fs \ {p}

\* os.chmod(binary_path, 0o755)
MakeExecutable(fs, p) == fs \cup {p}

\* os.chmod(binary_path, 0o755), the summary, and return {'success': True, ...}
ChmodAndReturn ==
    /\ pc = "chmod"
    /\ \/ /\ execbits' = MakeExecutable(execbits, binary_path)
          /\ Return(SuccessResult(compile_output, binary_path, binary_info,
                                  "summary"))
       \/ /\ Return(ExceptionResult)
          /\ UNCHANGED execbits
    /\ UNCHANGED <<rvars, jvars, uvars>>
    /\ UNCHANGED formatted_log
    /\ UNCHANGED <<args, missing_deps, dirs, job_files, spawned, attempts,
                   packages_result, install_result, proc, stdout_open,
                   returncode, line_count, compile_output, progress, files,
                   binary_path, binary_info, linking_info>>

CNext ==
    \/ Preflight
    \/ CreateDirs
    \/ CheckPlatform
    \/ InstallPackages
    \/ WriteScript
    \/ InstallRequirements
    \/ SpawnCompiler
    \/ ReadLine
    \/ ReadLineRaises
    \/ CompilerClosesStdout
    \/ CompilerExits
    \/ ReadEOF
    \/ Wait
    \/ Locate
    \/ Decide
    \/ RunFile
    \/ RunLdd
    \/ Rename
    \/ ChmodAndReturn

Next == CNext

Spec == Init /\ [][Next]_vars

-----------------------------------------------------------------------------
(* Properties of compile_with_nuitka, checked under Spec *)

Returned == pc = "returned"

Workspace == {"job_dir", "output_dir"}

Installers == {"apt-get", "pip"}

Started(names) == \E i \in DOMAIN spawned : spawned[i] \in names

\* C1: a call with target_platform = "windows" never creates a workspace
\* directory: neither job_dir nor output_dir exists at any point of the
\* call, in particular not when the unsupported-platform result is returned.
C1_NoWorkspaceForWindows ==
    target_platform = "windows" => dirs = {}

C4_SuccessNeedsExitZeroAndArtifact ==
    /\ (Returned /\ result.success) =>
           /\ returncode = 0
           /\ binary_path # NoPath
           /\ result.binary_path # NoPath
    /\ (Returned /\ proc = "exited" /\ returncode = 0 /\ binary_path = NoPath) =>
           /\ ~result.success
           /\ result.error = "compile_failed"

\* C4 witness: the compiler exited zero and left a file, but no search
\* pattern matched it, and the call returned failure
C4_Witness ==
    /\ Returned
    /\ returncode = 0
    /\ files # {}
    /\ binary_path = NoPath
    /\ ~result.success

\* C5: every result with success = False carries binary_path = None.
C5_FailureCarriesNoPath ==
    (Returned /\ ~result.success) => result.binary_path = NoPath

\* C5 witness: the compiler exited non-zero, a matching file was found in
\* the output directory, and the failure result was returned
C5_Witness ==
    /\ Returned
    /\ ~result.success
    /\ returncode = 1
    /\ binary_path # NoPath
    /\ binary_path \in files

\* C6: every result with success = True carries a path that exists under
\* output_dir at return time, is executable, and comes with a non-empty
\* binary_info.
C6_SuccessArtifactValid ==
    (Returned /\ result.success) =>
        /\ result.binary_path \in files
        /\ result.binary_path \in execbits
        /\ result.binary_info # ""

\* C17: a failed dependency installation, whether the installer exited
\* non-zero or the call of it raised, never ends the build: when the call
\* returns, the compiler has been invoked.
C17_InstallFailureNeverAborts ==
    (Returned /\ install_result \in {"return code", "Error"}) =>
        attempts # <<>>

\* C18: every result returned after the compiler has produced output,
\* the results of the except branch included, carries in compile_output
\* all the log lines accumulated so far.
C18_ResultCarriesLog ==
    (Returned /\ line_count > 0) =>
        result.compile_output = [kind |-> "log", lines |-> compile_output]

\* the compiler could not be started: Popen raised
SpawnFailed == attempts # <<>> /\ proc = "none"

\* the compiler ran, printed nothing and exited non-zero
RanSilentNonZero == proc = "exited" /\ line_count = 0 /\ returncode # 0

\* C19: the result of a compiler that could not be started differs from
\* the result of a compiler that ran, printed nothing and exited non-zero:
\* the second is the failure dict with an empty log, the first is not a
\* failure dict of that kind for any log.
C19_SpawnFailureDistinct ==
    Returned =>
        /\ SpawnFailed =>
              /\ result.error # "compile_failed"
              /\ result.binary_info # "Compilation failed"
              /\ result.compile_output # [kind |-> "log", lines |-> <<>>]
        /\ RanSilentNonZero =>
              result = FailedResult(<<>>, NoPath, install_result)

\* the call has returned after Popen raised
C19_Witness == Returned /\ SpawnFailed

\* C20: progress 1.0 is shown only when the compiler process has exited.
C20_FullProgressOnlyAfterExit ==
    progress = 200 => proc = "exited"

\* the positions of compile_with_nuitka up to and including the
\* requirements block
BeforeCompile ==
    {"preflight", "mkdirs", "platform", "packages", "write", "reqs"}

\* C25: within one build the source text is written to job_dir before the
\* requirements installer (pip) and the compiler are started; pip is run at
\* most once, only for a non-blank requirements text, and before the
\* compiler is spawned; once a compile attempt has started the call is past
\* the requirements block and pip is not run again.
C25_WriteInstallCompileOrder ==
    /\ Cardinality({i \in DOMAIN spawned : spawned[i] = "pip"}) <= 1
    /\ Started({"pip"}) => requirements # ""
    /\ (Started({"pip"}) \/ attempts # <<>>) => "user_script.py" \in job_files
    /\ \A i, j \in DOMAIN spawned :
          (spawned[i] = "pip" /\ spawned[j] = "nuitka") => i < j
    /\ attempts # <<>> => pc \notin BeforeCompile

\* pip was run and the compiler was started after it
C25_Witness ==
    /\ Started({"pip"})
    /\ Started({"nuitka"})
    /\ "user_script.py" \in job_files

\* the rename step has been passed without an exception
Renamed == pc = "rename" /\ pc' = "chmod"

\* C28: on every successful build the returned artifact path ends with
\* the requested extension and exists; the rename step moves an artifact
\* found under another name to path + extension (the old path is gone, the
\* new one exists) and leaves alone an artifact that ends with the
\* extension already.
C28_ArtifactHasRequestedExtension ==
    /\ []((Returned /\ result.success) =>
            /\ output_extension \in {".bin", ".sh"}
            /\ EndsWith(result.binary_path, output_extension)
            /\ result.binary_path \in files)
    /\ [][Renamed =>
            IF binary_path.name[Len(binary_path.name)] = output_extension
            THEN binary_path' = binary_path /\ files' = files
            ELSE /\ binary_path'.dir = binary_path.dir
                 /\ binary_path'.name = binary_path.name \o <<output_extension>>
                 /\ binary_path \notin files'
                 /\ binary_path' \in files']_vars

\* a successful build whose artifact was found as user_script.bin while
\* .sh was requested: the result carries the moved path
C28_Witness ==
    /\ Returned
    /\ result.success
    /\ output_extension = ".sh"
    /\ result.binary_path.name = <<"user_script", ".bin", ".sh">>
    /\ result.binary_path \in files

\* the call has returned from the ldd step: file was run, ldd was not
LddNotSpawned == Returned /\ Started({"file"}) /\ ~Started({"ldd"})

\* C21: ldd only annotates the result. With a compiler exit code of zero
\* and an artifact found, the success flag does not depend on what ldd
\* does: also when ldd cannot be spawned, the result has success = True.
C21_LddNeverGatesSuccess ==
    (LddNotSpawned /\ returncode = 0 /\ binary_path # NoPath) =>
        result.success

-----------------------------------------------------------------------------
(* The streaming loop of compile_with_nuitka on its own, with a compiler
   that prints many lines *)

\* the state right after Popen has started the compiler
StreamInit ==
    /\ pc = "stream"
    /\ target_platform = "linux"
    /\ requirements = ""
    /\ packages = ""
    /\ compilation_mode = Strategies[1]
    /\ output_extension = ".bin"
    /\ missing_deps = {}
    /\ dirs = {"job_dir", "output_dir"}
    /\ job_files = {"user_script.py"}
    /\ spawned = <<"which", "which", "nuitka">>
    /\ attempts = <<Strategies[1]>>
    /\ packages_result = "No system packages specified."
    /\ install_result = "No Python requirements specified."
    /\ proc = "running"
    /\ stdout_open = TRUE
    /\ returncode = NotExited
    /\ line_count = 0
    /\ compile_output = <<>>
    /\ progress = 0
    /\ formatted_log = <<>>
    /\ files = {}
    /\ execbits = {}
    /\ binary_path = NoPath
    /\ binary_info = None
    /\ linking_info = None
    /\ result = NoResult
    /\ RIdle
    /\ JIdle
    /\ UIdle

\* one turn of the loop for a verbose compiler
StreamLine ==
    /\ pc = "stream"
    /\ \E seps \in IF line_count < MaxSplitLines THEN {0, 1} ELSE {0} :
         StreamRead(MaxStreamLines, seps)

StreamNext ==
    \/ StreamLine
    \/ CompilerClosesStdout
    \/ ReadEOF

SpecStream == StreamInit /\ [][StreamNext]_vars

-----------------------------------------------------------------------------
(* Properties of the streaming loop, checked under SpecStream *)

Streaming == pc = "stream"

\* min(n / 200, 0.99) in 1/200ths: 200 is the assumed total, 198 is 0.99
AssumedTotalLines == 200
ProgressCap == 198

\* C23: while the output is streamed, after n lines the progress shown is
\* min(n/200, 0.99): it never decreases with n and stays below 1.0 for
\* every n.
C23_ProgressFormula ==
    Streaming =>
        /\ progress = (IF line_count <= ProgressCap THEN line_count
                       ELSE ProgressCap)
        /\ progress < AssumedTotalLines
        /\ \A m \in 0..line_count : Progress(m) <= progress

\* more lines than the assumed total have been read
C23_Witness == Streaming /\ line_count > AssumedTotalLines

\* the full log holds every line read so far, in the order of arrival
FullLogKept ==
    /\ Len(compile_output) = line_count
    /\ \A i \in 1..line_count : compile_output[i].n = i

\* C24 as stated: the window holds at most 20 lines and is the last
\* min(20, n) of the n lines read, while the full log keeps all n lines.
C24_WindowIsLastLinesRead ==
    (Streaming /\ line_count > 0) =>
        /\ Len(formatted_log) <= WindowSize
        /\ formatted_log =
              splitlines(SubSeq(compile_output,
                                IF line_count <= WindowSize THEN 1
                                ELSE line_count - WindowSize + 1,
                                line_count))
        /\ FullLogKept

\* C24, amended: the window holds at most 20 lines and is the last
\* min(20, m) of the m lines that splitlines makes of the full log (m = n
\* when no line read has a line boundary inside, and then the window is
\* the last min(20, n) lines read); the full log keeps all n lines read.
C24_WindowIsLastSplitLines ==
    (Streaming /\ line_count > 0) =>
        LET all == splitlines(compile_output)
            m == Len(all)
            k == IF m <= WindowSize THEN m ELSE WindowSize
        IN /\ Len(formatted_log) = k
           /\ \A i \in 1..k : formatted_log[i] = all[m - k + i]
           /\ (\A i \in 1..line_count : compile_output[i].seps = 0) =>
                  /\ m = line_count
                  /\ \A i \in 1..k : formatted_log[i].n = line_count - k + i
           /\ FullLogKept

\* more than 20 lines were read and the oldest ones are out of the window
C24_Witness ==
    /\ Streaming
    /\ line_count > WindowSize
    /\ Len(formatted_log) = WindowSize
    /\ formatted_log[1].n = line_count - WindowSize + 1

-----------------------------------------------------------------------------
(* find_compiled_binary on its own: any small tree, either extension *)

Trees == {fs \in SUBSET TreePaths : Cardinality(fs) <= MaxTree}

\* the rest of the state while compile_with_nuitka is not under way
CRest ==
    /\ target_platform = "linux"
    /\ requirements = ""
    /\ packages = ""
    /\ compilation_mode = Strategies[1]
    /\ missing_deps = {}
    /\ dirs = {}
    /\ job_files = {}
    /\ spawned = <<>>
    /\ attempts = <<>>
    /\ packages_result = None
    /\ install_result = None
    /\ proc = "none"
    /\ stdout_open = FALSE
    /\ returncode = NotExited
    /\ line_count = 0
    /\ compile_output = <<>>
    /\ progress = 0
    /\ formatted_log = <<>>
    /\ execbits = {}
    /\ binary_path = NoPath
    /\ binary_info = None
    /\ linking_info = None
    /\ result = NoResult

FindInit ==
    /\ pc = "find"
    /\ files \in Trees
    /\ output_extension \in {".bin", ".sh"}
    /\ CRest
    /\ RIdle
    /\ JIdle
    /\ UIdle

\* binary_path = find_compiled_binary(output_dir, output_filename)
FindBinary ==
    /\ pc = "find"
    /\ binary_path' \in find_compiled_binary(files, OutputFilename(output_extension))
    /\ pc' = "found"
    /\ UNCHANGED <<rvars, jvars, uvars>>
    /\ UNCHANGED formatted_log
    /\ UNCHANGED <<args, missing_deps, dirs, job_files, spawned, attempts,
                   packages_result, install_result, proc, stdout_open,
                   returncode, line_count, compile_output, progress, files,
                   execbits, binary_info, linking_info, result>>

FindNext == FindBinary

SpecFind == FindInit /\ [][FindNext]_vars

-----------------------------------------------------------------------------
(* Properties of find_compiled_binary, checked under SpecFind *)

Found == pc = "found"

\* the file name the search was asked for
Expected == OutputFilename(output_extension)

\* a path glob can see: not below a hidden directory
Visible(p) == p.dir \notin HiddenDirs

\* p is a candidate of search step k: 1 the expected name in the root,
\* 2 the expected name under user_script.dist, 3 the expected name anywhere,
\* 4 user_script, 5 any *.bin, 6 any *.exe (3 to 6 as the search sees them)
Candidate(k, p) ==
    CASE k = 1 -> p = Path("root", Expected)
      [] k = 2 -> p = Path("dist", Expected)
      [] k = 3 -> Visible(p) /\ p.name = Expected
      [] k = 4 -> Visible(p) /\ p.name = <<"user_script">>
      [] k = 5 -> Visible(p) /\ Len(p.name) > 1 /\ p.name[Len(p.name)] = ".bin"
      [] k = 6 -> Visible(p) /\ Len(p.name) > 1 /\ p.name[Len(p.name)] = ".exe"

Steps == 1..6

MatchesPattern(n) ==
    \/ n = Expected
    \/ n = <<"user_script">>
    \/ Len(n) > 1 /\ n[Len(n)] \in {".bin", ".exe"}

\* C15 as stated: a path is returned whenever the expected file exists
\* anywhere under the output directory, not-found is returned only when no
\* path under it matches any pattern, and a returned path exists.
C15_FoundWheneverPresent ==
    Found =>
        /\ (\E p \in files : p.name = Expected) => binary_path # NoPath
        /\ binary_path = NoPath =>
               ~\E p \in files : MatchesPattern(p.name)
        /\ binary_path # NoPath => binary_path \in files

\* C15, amended: a path is returned whenever the expected file exists in
\* the root, under user_script.dist or in any directory that is not hidden;
\* not-found is returned only when no path outside hidden directories
\* matches any pattern; a returned path exists in the tree.
C15_FoundWheneverVisible ==
    Found =>
        /\ (\E p \in files : Visible(p) /\ p.name = Expected) =>
               binary_path # NoPath
        /\ binary_path = NoPath =>
               ~\E p \in files : \E k \in Steps : Candidate(k, p)
        /\ binary_path # NoPath => binary_path \in files

\* the expected file is in a nested directory only, and it was returned
C15_Witness ==
    /\ Found
    /\ files = {Path("sub", Expected)}
    /\ binary_path = Path("sub", Expected)

-----------------------------------------------------------------------------
(* Several build requests at once: the directories and files of
   compile_with_nuitka, one call per request, over one file system *)

Codes == {"print('a')", "print('b')"}

\* os.path.join(job_dir, "user_script.py")
ScriptPath == Path("root", <<"user_script", ".py">>)

\* what one compiler run may leave under its --output-dir
JobOutputs ==
    {out \in SUBSET [dir : Dirs, name : {<<"user_script", ".bin">>}] :
        Cardinality(out) <= MaxFiles}

\* the tree below directory d
FilesUnder(fs, d) == {f.path : f \in {g \in fs : g.dir = d}}

JobsInit ==
    /\ jpc = [j \in Jobs |-> "idle"]
    /\ job_id = [j \in Jobs |-> NoId]
    /\ jcode \in [Jobs -> Codes]
    /\ jresult = [j \in Jobs |-> NoArtifact]
    /\ fs_dirs = {}
    /\ fs_files = {}
    /\ pc = "idle"
    /\ files = {}
    /\ output_extension = ".bin"
    /\ CRest
    /\ RIdle
    /\ UIdle

\* job_id = str(uuid.uuid4()) (a value no earlier call returned), the two
\* directories, ensure_dir on both, and the script written into job_dir
JobCreate(j) ==
    /\ jpc[j] = "idle"
    /\ \E id \in Ids \ {job_id[k] : k \in Jobs} :
         /\ job_id' = [job_id EXCEPT ![j] = id]
         /\ fs_dirs' = fs_dirs \cup {JobDir(id), OutputDir(id)}
         /\ fs_files' = fs_files \cup {File(JobDir(id), ScriptPath)}
    /\ jpc' = [jpc EXCEPT ![j] = "compile"]
    /\ UNCHANGED <<cvars, rvars, uvars, jcode, jresult>>

\* the compiler, run with f"--output-dir={output_dir}", up to its exit
JobCompile(j) ==
    /\ jpc[j] = "compile"
    /\ \E out \in JobOutputs :
         fs_files' = fs_files \cup {File(OutputDir(job_id[j]), p) : p \in out}
    /\ jpc' = [jpc EXCEPT ![j] = "locate"]
    /\ UNCHANGED <<cvars, rvars, uvars, job_id, jcode, jresult, fs_dirs>>

\* binary_path = find_compiled_binary(output_dir, output_filename), and the
\* fallback patterns below output_dir when it found nothing
JobLocate(j) ==
    /\ jpc[j] = "locate"
    /\ LET output_dir == OutputDir(job_id[j])
           tree == FilesUnder(fs_files, output_dir)
       IN \E p \in find_compiled_binary(tree, OutputFilename(output_extension)) :
            IF p # NoPath
            THEN jresult' = [jresult EXCEPT ![j] = File(output_dir, p)]
            ELSE \E q \in FallbackPatterns(tree) :
                   jresult' = [jresult EXCEPT ![j] =
                                  IF q = NoPath THEN NoArtifact
                                  ELSE File(output_dir, q)]
    /\ jpc' = [jpc EXCEPT ![j] = "done"]
    /\ UNCHANGED <<cvars, rvars, uvars, job_id, jcode, fs_dirs, fs_files>>

JobsNext ==
    \E j \in Jobs :
        \/ JobCreate(j)
        \/ JobCompile(j)
        \/ JobLocate(j)

SpecJobs == JobsInit /\ [][JobsNext]_vars

-----------------------------------------------------------------------------
(* Properties of concurrent build requests, checked under SpecJobs *)

\* the requests that have drawn their job_id
Created == {j \in Jobs : job_id[j] # NoId}

\* C16: any two build requests, also with the same source text and also
\* interleaved, have distinct job directories and distinct output
\* directories, and the artifact path found for a request lies under its
\* own output directory and under no other request's.
C16_JobsIsolated ==
    /\ \A j, k \in Created :
          j # k => /\ JobDir(job_id[j]) # JobDir(job_id[k])
                   /\ OutputDir(job_id[j]) # OutputDir(job_id[k])
    /\ \A j \in Jobs :
          jresult[j] # NoArtifact =>
              /\ jresult[j].dir = OutputDir(job_id[j])
              /\ jresult[j] \in fs_files
              /\ \A k \in Created \ {j} : jresult[j].dir # OutputDir(job_id[k])

\* two requests with the same source text, both finished with an artifact
C16_Witness ==
    /\ jcode[1] = jcode[2]
    /\ jpc[1] = "done" /\ jpc[2] = "done"
    /\ jresult[1] # NoArtifact /\ jresult[2] # NoArtifact

-----------------------------------------------------------------------------
(* run_compiled_binary *)

\* time.sleep(0.1): the unit in which now is counted
PollInterval == 1

\* the pause, in seconds times ten
TicksPerSecond == 10

\* if time.time() - start_time > 10
TimeoutSeconds == 10

Timeout == TimeoutSeconds * TicksPerSecond

\* the clock stops here: one tick past the latest return the timeout allows
Horizon == Timeout + PollInterval + 1

\* one line of output_text: the tag in front of it, and which line of which
\* stream it is
Line(tag, stream, n) == [tag |-> tag, stream |-> stream, n |-> n]

\* f"[STDOUT] {stdout_line}"
TaggedLine(stream, n) ==
    Line(IF stream = "out" THEN "[STDOUT]" ELSE "[STDERR]", stream, n)

\* f"[STDOUT] {stdout}" for the lines communicate() returns in one string:
\* the tag is in front of the first of them only
RECURSIVE Rest(_, _, _)
Rest(stream, from, to) ==
    IF from > to THEN <<>>
    ELSE <<Line("", stream, from)>> \o Rest(stream, from + 1, to)

TaggedChunk(stream, from, to) ==
    IF from > to THEN <<>>
    ELSE <<TaggedLine(stream, from)>> \o Rest(stream, from + 1, to)

\* a completed result whose flag follows the child's exit code
CompletedResultByExitCode(text) ==
    [success |-> childExit = 0, reason |-> "completed", text |-> text]

\* return True, output_text
CompletedResult(text) == [success |-> TRUE, reason |-> "completed", text |-> text]

\* return False, "Execution timed out after 10 seconds.": the text is the
\* message alone, output_text is not part of it
TimedOutResult(text) ==
    [success |-> FALSE, reason |-> "timed_out",
     text |-> <<Line("", "message", 0)>>]

\* return False, f"Error running the binary: {str(e)}"
ErrorResult ==
    [success |-> FALSE, reason |-> "error", text |-> <<Line("", "message", 1)>>]

\* what the artifact may be: a native executable, or a Windows PE binary
FileTypes == {"ELF", "PE32"}

\* the state compile_with_nuitka left behind: a finished, successful build
CDone ==
    /\ pc = "returned"
    /\ target_platform = "linux"
    /\ requirements = ""
    /\ packages = ""
    /\ compilation_mode = Strategies[1]
    /\ output_extension = ".bin"
    /\ missing_deps = {}
    /\ dirs = {"job_dir", "output_dir"}
    /\ job_files = {"user_script.py"}
    /\ spawned = <<"which", "which", "nuitka", "file", "ldd">>
    /\ attempts = <<Strategies[1]>>
    /\ packages_result = "No system packages specified."
    /\ install_result = "No Python requirements specified."
    /\ proc = "exited"
    /\ stdout_open = FALSE
    /\ returncode = 0
    /\ line_count = 0
    /\ compile_output = <<>>
    /\ progress = 200
    /\ formatted_log = <<>>
    /\ files = {Path("root", OutputFilename(".bin"))}
    /\ execbits = {Path("root", OutputFilename(".bin"))}
    /\ binary_path = Path("root", OutputFilename(".bin"))
    /\ binary_info = "ELF 64-bit LSB executable"
    /\ linking_info = "Dynamically linked"
    /\ result = SuccessResult(<<>>, Path("root", OutputFilename(".bin")),
                              "ELF 64-bit LSB executable", "summary")

RInit ==
    /\ rpc = "chmod"
    /\ child = "none"
    /\ childWrite = "none"
    /\ childExit = NotExited
    /\ ignoresTerm = FALSE
    /\ outOpen = FALSE
    /\ errOpen = FALSE
    /\ outW = 0
    /\ outR = 0
    /\ errW = 0
    /\ errR = 0
    /\ outB = 0
    /\ errB = 0
    /\ artifact_type \in FileTypes
    /\ popen_called = FALSE
    /\ now = 0
    /\ output_text = <<>>
    /\ runResult = NoRunResult

RunInit == CDone /\ RInit /\ JIdle /\ UIdle

\* return (success, text)
RunReturn(r) ==
    /\ runResult' = r
    /\ rpc' = "done"

\* os.chmod(binary_path, 0o755), or it raises
RunChmod ==
    /\ rpc = "chmod"
    /\ \/ /\ execbits' = MakeExecutable(execbits, binary_path)
          /\ rpc' = "spawn"
          /\ UNCHANGED runResult
       \/ /\ RunReturn(ErrorResult)
          /\ UNCHANGED execbits
    /\ UNCHANGED <<args, pc, missing_deps, dirs, job_files, spawned, attempts,
                   packages_result, install_result, proc, stdout_open,
                   returncode, line_count, compile_output, progress, files,
                   binary_path, binary_info, linking_info, result>>
    /\ UNCHANGED <<artifact_type, popen_called>>
    /\ UNCHANGED <<jvars, uvars, formatted_log>>
    /\ UNCHANGED <<child, childWrite, childExit, ignoresTerm, outOpen, errOpen,
                   outW, outR, outB, errW, errR, errB, now, output_text>>

\* process = subprocess.Popen([binary_path], ...); start_time = time.time()
\* The artifact is handed to Popen whatever kind of file it is; the exec
\* succeeds or raises (a file the kernel has no handler for raises)
RunSpawn ==
    /\ rpc = "spawn"
    /\ popen_called' = TRUE
    /\ \/ /\ child' = "running"
          /\ outOpen' = TRUE
          /\ errOpen' = TRUE
          /\ now' = 0
          /\ rpc' = "poll"
          /\ UNCHANGED runResult
       \/ /\ RunReturn(ErrorResult)
          /\ UNCHANGED <<child, outOpen, errOpen, now>>
    /\ UNCHANGED <<cvars, jvars, uvars>>
    /\ UNCHANGED artifact_type
    /\ UNCHANGED <<childWrite, childExit, ignoresTerm, outW, outR, outB, errW, errR, errB,
                   output_text>>

\* while process.poll() is None
Poll ==
    /\ rpc = "poll"
    /\ rpc' = IF child = "running" THEN "check" ELSE "drain"
    /\ UNCHANGED <<cvars, jvars, uvars>>
    /\ UNCHANGED <<artifact_type, popen_called>>
    /\ UNCHANGED <<child, childWrite, childExit, ignoresTerm, outOpen, errOpen,
                   outW, outR, outB, errW, errR, errB, now, output_text, runResult>>

\* time.time() - start_time > 10
TimedOut(t) == t > Timeout

\* if time.time() - start_time > 10: process.terminate(); return False, ...
\* terminate() sends SIGTERM and does not wait: a child with the default
\* disposition is taken to be gone at once, a child that ignores the
\* signal keeps running
CheckTimeout ==
    /\ rpc = "check"
    /\ IF TimedOut(now)
       THEN /\ RunReturn(TimedOutResult(output_text))
            /\ \E ignores \in BOOLEAN :
                 /\ ignoresTerm' = ignores
                 /\ IF child = "running" /\ ~ignores
                    THEN /\ child' = "killed"
                         /\ childWrite' = "none"
                         /\ outOpen' = FALSE
                         /\ errOpen' = FALSE
                    ELSE UNCHANGED <<child, childWrite, outOpen, errOpen>>
       ELSE /\ rpc' = "read_out"
            /\ UNCHANGED <<runResult, ignoresTerm, child, childWrite, outOpen,
                           errOpen>>
    /\ UNCHANGED <<cvars, jvars, uvars>>
    /\ UNCHANGED <<artifact_type, popen_called>>
    /\ UNCHANGED <<childExit, outW, outR, outB, errW, errR, errB, now, output_text>>

\* stdout_line = process.stdout.readline(): returns the next line of the
\* reader's buffer; with the buffer empty it first takes what the pipe
\* holds (one line or more) into the buffer; '' at end of file; otherwise
\* it does not return
ReadStdout ==
    /\ rpc = "read_out"
    /\ \/ /\ outR < outB
          /\ outR' = outR + 1
          /\ output_text' = Append(output_text, TaggedLine("out", outR + 1))
          /\ UNCHANGED outB
       \/ /\ outR = outB
          /\ outB' \in (outB + 1)..outW
          /\ outR' = outR + 1
          /\ output_text' = Append(output_text, TaggedLine("out", outR + 1))
       \/ /\ outR = outB
          /\ outB = outW
          /\ ~outOpen
          /\ UNCHANGED <<outR, outB, output_text>>
    /\ rpc' = "read_err"
    /\ UNCHANGED <<cvars, jvars, uvars>>
    /\ UNCHANGED <<artifact_type, popen_called>>
    /\ UNCHANGED <<child, childWrite, childExit, ignoresTerm, outOpen, errOpen,
                   outW, errW, errR, errB, now, runResult>>

\* stderr_line = process.stderr.readline()
ReadStderr ==
    /\ rpc = "read_err"
    /\ \/ /\ errR < errB
          /\ errR' = errR + 1
          /\ output_text' = Append(output_text, TaggedLine("err", errR + 1))
          /\ UNCHANGED errB
       \/ /\ errR = errB
          /\ errB' \in (errB + 1)..errW
          /\ errR' = errR + 1
          /\ output_text' = Append(output_text, TaggedLine("err", errR + 1))
       \/ /\ errR = errB
          /\ errB = errW
          /\ ~errOpen
          /\ UNCHANGED <<errR, errB, output_text>>
    /\ rpc' = "sleep"
    /\ UNCHANGED <<cvars, jvars, uvars>>
    /\ UNCHANGED <<artifact_type, popen_called>>
    /\ UNCHANGED <<child, childWrite, childExit, ignoresTerm, outOpen, errOpen,
                   outW, outR, outB, errW, now, runResult>>

\* time.sleep(0.1)
Sleep ==
    /\ rpc = "sleep"
    /\ now < Horizon
    /\ now' = now + PollInterval
    /\ rpc' = "poll"
    /\ UNCHANGED <<cvars, jvars, uvars>>
    /\ UNCHANGED <<artifact_type, popen_called>>
    /\ UNCHANGED <<child, childWrite, childExit, ignoresTerm, outOpen, errOpen,
                   outW, outR, outB, errW, errR, errB, output_text, runResult>>

\* a readline call that has nothing to return: the buffer and the pipe are
\* empty and the pipe is open
BlockedOnStdout == rpc = "read_out" /\ outR = outB /\ outB = outW /\ outOpen
BlockedOnStderr == rpc = "read_err" /\ errR = errB /\ errB = errW /\ errOpen

\* time passes while the runner sits in a readline call
TimePasses ==
    /\ BlockedOnStdout \/ BlockedOnStderr
    /\ now < Horizon
    /\ now' = now + 1
    /\ UNCHANGED <<cvars, jvars, uvars>>
    /\ UNCHANGED <<artifact_type, popen_called>>
    /\ UNCHANGED <<rpc, child, childWrite, childExit, ignoresTerm, outOpen,
                   errOpen, outW, outR, outB, errW, errR, errB, output_text, runResult>>

\* stdout, stderr = process.communicate() and the two appends after it.
\* communicate() reads the pipes themselves (os.read on the descriptors):
\* it returns what the pipes still hold, and not the lines that earlier
\* readline calls took into the reader's buffer without returning them
Drain ==
    /\ rpc = "drain"
    /\ outB' = outW
    /\ errB' = errW
    /\ UNCHANGED <<outR, errR>>
    /\ RunReturn(CompletedResult(output_text
                                 \o TaggedChunk("out", outB + 1, outW)
                                 \o TaggedChunk("err", errB + 1, errW)))
    /\ output_text' = runResult'.text
    /\ UNCHANGED <<cvars, jvars, uvars>>
    /\ UNCHANGED <<artifact_type, popen_called>>
    /\ UNCHANGED <<child, childWrite, childExit, ignoresTerm, outOpen, errOpen,
                   outW, errW, now>>

ChildActive == child = "running" /\ rpc # "done"

\* the child writes a line to its stdout; with the pipe full the write blocks
ChildWritesStdout ==
    /\ ChildActive
    /\ outOpen
    /\ outW < MaxLines
    /\ \/ /\ childWrite = "none"
          /\ IF outW - outB < PipeCap
             THEN outW' = outW + 1 /\ UNCHANGED childWrite
             ELSE childWrite' = "out" /\ UNCHANGED outW
       \/ /\ childWrite = "out"
          /\ outW - outB < PipeCap
          /\ outW' = outW + 1
          /\ childWrite' = "none"
    /\ UNCHANGED <<cvars, jvars, uvars>>
    /\ UNCHANGED <<artifact_type, popen_called>>
    /\ UNCHANGED <<rpc, child, childExit, ignoresTerm, outOpen, errOpen, outR, outB,
                   errW, errR, errB, now, output_text, runResult>>

\* the child writes a line to its stderr; with the pipe full the write blocks
ChildWritesStderr ==
    /\ ChildActive
    /\ errOpen
    /\ errW < MaxLines
    /\ \/ /\ childWrite = "none"
          /\ IF errW - errB < PipeCap
             THEN errW' = errW + 1 /\ UNCHANGED childWrite
             ELSE childWrite' = "err" /\ UNCHANGED errW
       \/ /\ childWrite = "err"
          /\ errW - errB < PipeCap
          /\ errW' = errW + 1
          /\ childWrite' = "none"
    /\ UNCHANGED <<cvars, jvars, uvars>>
    /\ UNCHANGED <<artifact_type, popen_called>>
    /\ UNCHANGED <<rpc, child, childExit, ignoresTerm, outOpen, errOpen, outW,
                   outR, outB, errR, errB, now, output_text, runResult>>

\* the child closes one of its streams and keeps running
ChildClosesStream ==
    /\ ChildActive
    /\ childWrite = "none"
    /\ \/ outOpen /\ outOpen' = FALSE /\ UNCHANGED errOpen
       \/ errOpen /\ errOpen' = FALSE /\ UNCHANGED outOpen
    /\ UNCHANGED <<cvars, jvars, uvars>>
    /\ UNCHANGED <<artifact_type, popen_called>>
    /\ UNCHANGED <<rpc, child, childWrite, childExit, ignoresTerm, outW, outR, outB,
                   errW, errR, errB, now, output_text, runResult>>

\* the child exits
ChildExits ==
    /\ ChildActive
    /\ childWrite = "none"
    /\ child' = "exited"
    /\ childExit' \in ExitCodes
    /\ outOpen' = FALSE
    /\ errOpen' = FALSE
    /\ UNCHANGED <<cvars, jvars, uvars>>
    /\ UNCHANGED <<artifact_type, popen_called>>
    /\ UNCHANGED <<rpc, childWrite, ignoresTerm, outW, outR, outB, errW, errR, errB, now,
                   output_text, runResult>>

RNext ==
    \/ RunChmod
    \/ RunSpawn
    \/ Poll
    \/ CheckTimeout
    \/ ReadStdout
    \/ ReadStderr
    \/ Sleep
    \/ TimePasses
    \/ Drain
    \/ ChildWritesStdout
    \/ ChildWritesStderr
    \/ ChildClosesStream
    \/ ChildExits

SpecRun == RunInit /\ [][RNext]_vars

-----------------------------------------------------------------------------
(* Properties of run_compiled_binary, checked under SpecRun *)

RunReturned == rpc = "done"

\* C7: a child still running one poll interval after the 10 second limit
\* is not possible while the call is still in progress: by then the call
\* has returned, whatever the child wrote or did not write.
C7_TimeoutBoundedOverrun ==
    (child = "running" /\ now > Timeout + PollInterval) => RunReturned

\* C8: the runner never waits in a read of one stream, silent and open,
\* while the child is stuck writing to the other, full one.
C8_NoDeadlockBetweenStreams ==
    /\ ~(BlockedOnStdout /\ child = "running" /\ childWrite = "err")
    /\ ~(BlockedOnStderr /\ child = "running" /\ childWrite = "out")

\* C9: when the call returns the timed-out result, the child is no longer
\* running.
C9_TimedOutChildNotRunning ==
    (RunReturned /\ runResult.reason = "timed_out") => child # "running"

\* C10: the timed-out result contains every line of output_text captured
\* before the timeout fired.
C10_TimeoutKeepsTranscript ==
    (RunReturned /\ runResult.reason = "timed_out") =>
        \A i \in DOMAIN output_text :
            \E j \in DOMAIN runResult.text : runResult.text[j] = output_text[i]

\* C11: an artifact whose file type the executing platform cannot run (a
\* Windows PE binary on Linux) is never handed to Popen: the runner refuses
\* it without attempting to spawn a process.
C11_IncompatibleArtifactNotSpawned ==
    artifact_type = "PE32" => ~popen_called

\* the line numbers of one stream in a transcript, in transcript order
RECURSIVE StreamLines(_, _)
StreamLines(text, stream) ==
    IF text = <<>> THEN <<>>
    ELSE (IF Head(text).stream = stream THEN <<Head(text).n>> ELSE <<>>)
         \o StreamLines(Tail(text), stream)

\* C12: when the child exits before the timeout, the returned transcript
\* holds every line the child wrote to stdout and to stderr, each exactly
\* once and in the order it was written within its stream.
C12_TranscriptCompleteInOrder ==
    (RunReturned /\ runResult.reason = "completed") =>
        /\ StreamLines(runResult.text, "out") = [i \in 1..outW |-> i]
        /\ StreamLines(runResult.text, "err") = [i \in 1..errW |-> i]

\* C13: every line of the returned transcript carries the tag of the
\* stream it came from, the lines of the final drain included.
C13_EveryLineTagged ==
    (RunReturned /\ runResult.reason = "completed") =>
        \A i \in DOMAIN runResult.text :
            runResult.text[i] = TaggedLine(runResult.text[i].stream,
                                           runResult.text[i].n)

\* C22: a run of the artifact, whatever its outcome, leaves the stored
\* compilation result as it was: success flag and artifact path are those
\* of the build, and the artifact is still a file under output_dir, still
\* executable.
C22_RunKeepsCompileResult ==
    /\ result = SuccessResult(<<>>, Path("root", OutputFilename(".bin")),
                              "ELF 64-bit LSB executable", "summary")
    /\ result.binary_path \in files
    /\ rpc \notin {"idle", "chmod"} => result.binary_path \in execbits

\* a run that ended in a timeout, after the build had succeeded
C22_Witness ==
    /\ RunReturned
    /\ runResult.reason = "timed_out"
    /\ result.success
    /\ result.binary_path \in files

\* C27: the run reports success = True whenever the loop saw the child
\* exit, whatever the exit code; success = False is returned for a timeout
\* or an exception only. A child that exited non-zero is a successful run.
C27_SuccessIgnoresExitCode ==
    RunReturned =>
        /\ runResult.reason = "completed" =>
              /\ runResult.success
              /\ child = "exited"
        /\ ~runResult.success => runResult.reason \in {"timed_out", "error"}
        /\ runResult.success => runResult.reason = "completed"

\* the child exited with a non-zero code and the run was returned as completed
C27_Witness ==
    /\ RunReturned
    /\ runResult.reason = "completed"
    /\ childExit = 1

-----------------------------------------------------------------------------
(* The page: the compile button, the results view with the run button and
   "Start New Compilation", over the two session-state slots *)

\* what run_compiled_binary can come back with
RunOutcomes == {"completed", "timed_out", "error"}

\* a session whose script has not run yet: no slot holds anything
UIInit ==
    /\ pc = "idle"
    /\ files = {}
    /\ output_extension = ".bin"
    /\ CRest
    /\ RIdle
    /\ JIdle
    /\ compilation_results = NoResult
    /\ show_results = FALSE
    /\ ui = "new"
    /\ run_output = "none"

\* if st.button("Compile with Nuitka"): the call of compile_with_nuitka
\* with what the form holds begins; target_platform is "linux" on this
\* page, and the form is filled in with or without requirements
CompileButton ==
    /\ ui = "form"
    /\ ui' = "compiling"
    /\ pc' = "preflight"
    /\ target_platform' = "linux"
    /\ requirements' \in {"", "reqs"}
    /\ packages' = ""
    /\ compilation_mode' = Strategies[1]
    /\ output_extension' = ".bin"
    /\ missing_deps' = {}
    /\ dirs' = {}
    /\ job_files' = {}
    /\ spawned' = <<>>
    /\ attempts' = <<>>
    /\ packages_result' = None
    /\ install_result' = None
    /\ proc' = "none"
    /\ stdout_open' = FALSE
    /\ returncode' = NotExited
    /\ line_count' = 0
    /\ compile_output' = <<>>
    /\ progress' = 0
    /\ formatted_log' = <<>>
    /\ files' = {}
    /\ execbits' = {}
    /\ binary_path' = NoPath
    /\ binary_info' = None
    /\ linking_info' = None
    /\ result' = NoResult
    /\ UNCHANGED <<rvars, jvars, compilation_results, show_results, run_output>>

\* st.session_state.compilation_results = results;
\* st.session_state.show_results = True; st.rerun()
StoreResults ==
    /\ ui = "compiling"
    /\ pc = "returned"
    /\ compilation_results' = result
    /\ show_results' = TRUE
    /\ ui' = "results"
    /\ UNCHANGED <<cvars, rvars, jvars, run_output>>

\* the results view is drawn:
\* if st.session_state.show_results and st.session_state.compilation_results
ResultsShown == show_results /\ compilation_results # NoResult

\* if st.button("Run Compiled Binary"): success, result =
\* run_compiled_binary(results['binary_path']), then the output is displayed
RunButton ==
    /\ ui = "results"
    /\ ResultsShown
    /\ compilation_results.success
    /\ compilation_results.binary_path \in files
    /\ run_output' \in RunOutcomes
    /\ UNCHANGED <<cvars, rvars, jvars, compilation_results, show_results, ui>>

\* a run of the script from the top, the first one of the session or a
\* rerun by some widget: lines 21-24 fill the slots that do not exist yet
\* and leave existing ones alone; what the run button displayed is not
\* drawn again
ScriptRun ==
    /\ \/ /\ ui = "new"
          /\ compilation_results' = NoResult
          /\ show_results' = FALSE
          /\ ui' = "form"
          /\ UNCHANGED run_output
       \/ /\ ui = "results"
          /\ run_output # "none"
          /\ run_output' = "none"
          /\ UNCHANGED <<compilation_results, show_results, ui>>
    /\ UNCHANGED <<cvars, rvars, jvars>>

\* a "Start New Compilation" that forgets the result and keeps the flag
StartNewKeepsFlag ==
    /\ ui = "results"
    /\ compilation_results' = NoResult
    /\ ui' = "form"
    /\ run_output' = "none"
    /\ UNCHANGED <<cvars, rvars, jvars, show_results>>

\* if st.button("Start New Compilation"): compilation_results = None;
\* show_results = False; st.rerun()
StartNew ==
    /\ ui = "results"
    /\ compilation_results' = NoResult
    /\ show_results' = FALSE
    /\ ui' = "form"
    /\ run_output' = "none"
    /\ UNCHANGED <<cvars, rvars, jvars>>

UINext ==
    \/ ScriptRun
    \/ CompileButton
    \/ CNext
    \/ StoreResults
    \/ RunButton
    \/ StartNew

SpecUI == UIInit /\ [][UINext]_vars

-----------------------------------------------------------------------------
(* Properties of the page, checked under SpecUI *)

\* C26: after any sequence of page events the two session-state slots
\* agree: show_results is True exactly when compilation_results holds a
\* result, so both are set together and reset together; and every return
\* of compile_with_nuitka hands over a result, never None.
C26_SessionCacheConsistent ==
    /\ show_results <=> compilation_results # NoResult
    /\ Returned => result # NoResult
    /\ ui = "results" => ResultsShown
    /\ ui \in {"new", "form"} => ~show_results

\* a build was stored and shown, then "Start New Compilation" was pressed
C26_Witness ==
    /\ ui = "form"
    /\ Returned
    /\ ~show_results
    /\ compilation_results = NoResult

====
